---- MODULE Spec2Model ----
(***************************************************************************)
(* cdnizer: the asset provisioner of main and the recursive directory      *)
(* indexer generate_index, with the pure helpers ignore, icon,             *)
(* to_web_path and to_breadcrumbs, modelled from src/src/main.rs.          *)
(*                                                                         *)
(* A file name is a sequence of one-character strings, so that extension   *)
(* splitting, joining and byte-wise comparison are computed and not        *)
(* assumed.  A path is a sequence of components, as Path::components()     *)
(* yields them.  The filesystem is a function from paths to nodes.         *)
(***************************************************************************)
EXTENDS Integers, Sequences, FiniteSets, TLC

VARIABLES fs, status, stack, lost, input, output, before

vars == <<fs, status, stack, lost, input, output, before>>

(***************************************************************************)
(* Bounds of the model.                                                    *)
(***************************************************************************)
\* modification times are drawn from 1..MaxDate
MaxDate == 2
\* at most this many items of the directory enumerations of one run are Err
MaxLost == 1
\* to_breadcrumbs is applied to directories at most this deep
MaxDepth == 3

(***************************************************************************)
(* Strings.                                                                *)
(***************************************************************************)
VENDOR_DIR_NAME == <<"_", "v", "e", "n", "d", "o", "r">>
INDEX_HTML == <<"i", "n", "d", "e", "x", ".", "h", "t", "m", "l">>
INDEX_JSON == <<"i", "n", "d", "e", "x", ".", "j", "s", "o", "n">>

\* the characters of the model's names in byte order; Code gives a
\* character's rank, which is all that String::cmp reads of it
Ascii ==
  <<".", "/", "0", "1", "2", "3", "4", "B", "C", "D", "F", "I", "K", "L", "N",
    "O", "P", "^", "_", "a", "b", "c", "d", "e", "f", "g", "h", "i", "j", "k",
    "l", "m", "n", "o", "p", "q", "r", "s", "t", "u", "v", "w", "x", "y", "z",
    "xFF", "uFFFD">>

Code(c) == CHOOSE i \in DOMAIN Ascii : Ascii[i] = c

\* a byte that is not valid UTF-8, and the replacement character that
\* to_string_lossy puts in its place
InvalidByte == "xFF"
Replacement == "uFFFD"

to_string_lossy(s) ==
  [i \in DOMAIN s |-> IF s[i] = InvalidByte THEN Replacement ELSE s[i]]

Min(a, b) == IF a < b THEN a ELSE b

\* a.cmp(&b) = Less for two Strings: byte-wise lexicographic
StrLess(a, b) ==
  \/ \E i \in 1..Min(Len(a), Len(b)) :
       /\ \A j \in 1..(i - 1) : a[j] = b[j]
       /\ Code(a[i]) < Code(b[i])
  \/ /\ Len(a) < Len(b)
     /\ \A j \in 1..Len(a) : a[j] = b[j]

(***************************************************************************)
(* Option values.                                                          *)
(***************************************************************************)
None == [some |-> FALSE, val |-> <<>>]
Some(v) == [some |-> TRUE, val |-> v]

(***************************************************************************)
(* Paths: sequences of components.                                         *)
(***************************************************************************)
CurDir == <<"CurDir", <<>>>>
Normal(name) == <<"Normal", name>>
IsNormal(c) == c[1] = "Normal"

\* Path::new(".")
DOT == <<CurDir>>

\* Path::join / DirEntry::path: the directory's path and one more name
Join(path, name) == Append(path, Normal(name))

\* Path::file_name: the last component when it is a normal one
file_name(path) ==
  IF path # <<>> /\ IsNormal(path[Len(path)])
  THEN Some(path[Len(path)][2])
  ELSE None

\* Path::parent: the path without its last component; None for the empty path
parent(path) ==
  IF path = <<>> THEN None ELSE Some(SubSeq(path, 1, Len(path) - 1))

\* the index of the last "." of a name, 0 when it has none
LastDot(name) ==
  IF \E i \in DOMAIN name : name[i] = "."
  THEN CHOOSE i \in DOMAIN name :
         name[i] = "." /\ \A j \in (i + 1)..Len(name) : name[j] # "."
  ELSE 0

\* Path::extension: the part of the file name after its last ".", when the
\* name has a "." that is not its first character
extension(path) ==
  LET fname == file_name(path)
  IN  IF ~fname.some THEN None
      ELSE LET d == LastDot(fname.val)
           IN  IF d <= 1 THEN None
               ELSE Some(SubSeq(fname.val, d + 1, Len(fname.val)))

RECURSIVE JoinSlash(_)
JoinSlash(names) ==
  IF names = <<>> THEN <<>>
  ELSE IF Len(names) = 1 THEN names[1]
  ELSE names[1] \o <<"/">> \o JoinSlash(Tail(names))

\* to_web_path: the normal components, non-empty, joined by "/"
to_web_path(path) ==
  LET mapped == [i \in DOMAIN path |->
                   IF IsNormal(path[i]) THEN path[i][2] ELSE <<>>]
      filtered == SelectSeq(mapped, LAMBDA s : s # <<>>)
  IN  to_string_lossy(JoinSlash(filtered))

\* the loop of to_breadcrumbs: push a crumb and go to the parent, until the
\* path is "." or there is no path left
RECURSIVE CrumbLoop(_, _)
CrumbLoop(current_path, crumbs) ==
  IF ~current_path.some THEN crumbs
  ELSE LET path == current_path.val
       IN  IF path = DOT THEN crumbs
           ELSE CrumbLoop(
                  parent(path),
                  Append(crumbs,
                    [path |-> to_web_path(path),
                     name |-> LET f == file_name(path)
                              IN  to_string_lossy(IF f.some THEN f.val ELSE <<>>)]))

Reverse(s) == [i \in DOMAIN s |-> s[Len(s) + 1 - i]]

\* to_breadcrumbs without crumbs.reverse()
to_breadcrumbs_unreversed(path) == CrumbLoop(Some(path), <<>>)

to_breadcrumbs(path) == Reverse(CrumbLoop(Some(path), <<>>))

\* ignore without the two listing names
ignore_only_vendor(path) ==
  LET fname == file_name(path)
  IN  IF fname.some THEN to_string_lossy(fname.val) = VENDOR_DIR_NAME ELSE FALSE

\* ignore without the asset subdirectory's name
ignore_only_listings(path) ==
  LET fname == file_name(path)
  IN  IF fname.some
      THEN fname.val = INDEX_HTML \/ fname.val = INDEX_JSON
      ELSE FALSE

\* ignore: the asset subdirectory's name, or index.html, or index.json
ignore(path) ==
  LET fname == file_name(path)
  IN  \/ IF fname.some THEN to_string_lossy(fname.val) = VENDOR_DIR_NAME ELSE FALSE
      \/ IF fname.some
         THEN fname.val = INDEX_HTML \/ fname.val = INDEX_JSON
         ELSE FALSE

(***************************************************************************)
(* The filesystem: a function from paths to nodes.  A node's kind is       *)
(* "absent", "file", "dir", "lockeddir" (a directory that cannot be read), *)
(* "linkdir" (a symbolic link to a directory), "linkfile" (to a file) or   *)
(* "broken" (a symbolic link to nothing).                                  *)
(***************************************************************************)
NoData == [tag |-> "none", entries |-> <<>>, breadcrumbs |-> <<>>, vendor_dir |-> <<>>]
Absent == [kind |-> "absent", mtime |-> 0, len |-> 0, data |-> NoData]

Node(path) == IF path \in DOMAIN fs THEN fs[path] ELSE Absent

\* Path::exists and Path::is_dir follow symbolic links
exists(path) == Node(path).kind \notin {"absent", "broken"}
is_dir(path) == Node(path).kind \in {"dir", "lockeddir", "linkdir"}

\* DirEntry::file_type does not follow symbolic links
file_type_is_dir(path) == Node(path).kind \in {"dir", "lockeddir"}

\* Path::metadata follows symbolic links: it fails on a link to nothing
metadata(path) ==
  IF exists(path) THEN Some([len |-> Node(path).len, modified |-> Node(path).mtime])
  ELSE None

\* the match of icon, arm by arm in the order of the source
IconArms ==
  <<
    [pats |-> {<<".", ".">>},
     icon |-> "back.png"],
    [pats |-> {<<>>, <<"^", "^", "B", "L", "A", "N", "K", "I", "C", "O", "N", "^", "^">>},
     icon |-> "blank.gif"],
    [pats |-> {<<"c", "o", "m", "p">>},
     icon |-> "comp.png"],
    [pats |-> {<<"z", "i", "p">>, <<"t", "a", "r">>, <<"t", "g", "z">>, <<"r", "a", "r">>, <<"g", "z">>, <<"b", "z", "2">>},
     icon |-> "compressed.gif"],
    [pats |-> {<<"d", "o", "c">>, <<"d", "o", "c", "x">>},
     icon |-> "doc.png"],
    [pats |-> {<<"x", "l", "s">>, <<"x", "l", "s", "x">>},
     icon |-> "xls.png"],
    [pats |-> {<<"p", "p", "t">>, <<"p", "p", "t", "x">>},
     icon |-> "ppt.png"],
    [pats |-> {<<"t", "x", "t">>, <<"t", "e", "x", "t">>, <<"h", "t", "m", "l">>, <<"h", "t", "m">>, <<"m", "d">>, <<"m", "d", "o", "w", "n">>, <<"m", "a", "r", "k", "d", "o", "w", "n">>},
     icon |-> "text.png"],
    [pats |-> {<<"p", "d", "f">>},
     icon |-> "pdf.png"],
    [pats |-> {<<"j", "p", "g">>, <<"j", "p", "e", "g">>, <<"p", "n", "g">>, <<"g", "i", "f">>, <<"t", "i", "f">>, <<"t", "i", "f", "f">>, <<"w", "e", "b", "p">>},
     icon |-> "image.png"],
    [pats |-> {<<"p", "s">>},
     icon |-> "ps.png"],
    [pats |-> {<<"m", "p", "3">>, <<"w", "a", "v">>, <<"m", "4", "a">>, <<"o", "g", "g">>},
     icon |-> "sound.png"],
    [pats |-> {<<"w", "m", "v">>, <<"a", "v", "i">>, <<"m", "p", "4">>, <<"w", "e", "b", "m">>},
     icon |-> "movie-ms.gif"],
    [pats |-> {<<"m", "o", "v">>, <<"q", "t">>},
     icon |-> "mov.png"],
    [pats |-> {<<"j", "a", "v", "a">>},
     icon |-> "java.png"],
    [pats |-> {<<"j", "s">>},
     icon |-> "js.png"],
    [pats |-> {<<"p", "h", "p">>},
     icon |-> "php.png"]
  >>

IconMatch(ext) ==
  IF \E i \in DOMAIN IconArms : ext \in IconArms[i].pats
  THEN IconArms[CHOOSE i \in DOMAIN IconArms :
                  /\ ext \in IconArms[i].pats
                  /\ \A j \in 1..(i - 1) : ext \notin IconArms[j].pats].icon
  ELSE "text.png"

\* icon without the is_dir test
icon_no_dir_test(path) ==
  LET e == extension(path)
  IN  IconMatch(to_string_lossy(IF e.some THEN e.val ELSE <<>>))

icon(path) ==
  IF is_dir(path) THEN "dir.png"
  ELSE LET e == extension(path)
       IN  IconMatch(to_string_lossy(IF e.some THEN e.val ELSE <<>>))

(***************************************************************************)
(* Results.                                                                *)
(***************************************************************************)
Ok(v) == [ok |-> TRUE, val |-> v]
Err(e) == [ok |-> FALSE, val |-> e]

(***************************************************************************)
(* Entry::new.                                                             *)
(***************************************************************************)
\* format!("{}", Size::from_bytes(len)): bytes below one KiB, else KiB
\* with two decimals
FormatSize(len) ==
  IF len < 1024
  THEN [unit |-> "bytes", whole |-> len, frac |-> 0]
  ELSE [unit |-> "KiB", whole |-> len \div 1024,
        frac |-> ((len % 1024) * 100) \div 1024]

DirectorySize == [unit |-> "directory", whole |-> 0, frac |-> 0]

Entry_new(path) ==
  LET md == metadata(path)
  IN  IF ~md.some THEN Err("metadata")
      ELSE Ok([name |-> LET f == file_name(path)
                        IN  to_string_lossy(IF f.some THEN f.val ELSE <<>>),
               path |-> to_web_path(path),
               icon |-> icon(path),
               date |-> md.val.modified,
               size |-> IF is_dir(path) THEN DirectorySize
                        ELSE FormatSize(md.val.len)])

NoEntry ==
  [name |-> <<>>, path |-> <<>>, icon |-> "", date |-> 0, size |-> DirectorySize]

(***************************************************************************)
(* The two sorts.  slice::sort_by is stable, so its result is the one      *)
(* permutation that puts x before y when x is less than y, or when neither *)
(* is less and x came first.  less[i, j]: the i-th is less than the j-th.  *)
(***************************************************************************)
StableSort(s, less) ==
  LET pos(i) == 1 + Cardinality({j \in DOMAIN s : less[j, i]})
                  + Cardinality({j \in 1..(i - 1) : ~less[j, i] /\ ~less[i, j]})
  IN  [k \in DOMAIN s |-> s[CHOOSE i \in DOMAIN s : pos(i) = k]]

\* directories left in the order they were pushed
sort_directories_unsorted(directories) == directories

\* directories.sort_by(|a, b| a.name.cmp(&b.name))
sort_directories(directories) ==
  StableSort(directories,
             [i, j \in DOMAIN directories |->
                StrLess(directories[i].name, directories[j].name)])

\* files sorted by date descending, equal dates by name
sort_files_ties_by_name(files) ==
  StableSort(files,
             [i, j \in DOMAIN files |->
                \/ files[j].date < files[i].date
                \/ /\ files[j].date = files[i].date
                   /\ StrLess(files[i].name, files[j].name)])

\* files.sort_by(|a, b| b.date.cmp(&a.date))
sort_files(files) ==
  StableSort(files, [i, j \in DOMAIN files |-> files[j].date < files[i].date])

(***************************************************************************)
(* What is written.  serde skips an entry's path and icon.                 *)
(***************************************************************************)
IndexJson(files) ==
  [tag |-> "json",
   entries |-> [i \in DOMAIN files |->
                  [name |-> files[i].name, date |-> files[i].date,
                   size |-> files[i].size]],
   breadcrumbs |-> <<>>,
   vendor_dir |-> <<>>]

IndexHtml(vendor_dir, breadcrumbs, entries) ==
  [tag |-> "html", entries |-> entries, breadcrumbs |-> breadcrumbs,
   vendor_dir |-> vendor_dir]

\* a file created by this run is newer than every file of the tree
Now == MaxDate + 1

FileNode(data) == [kind |-> "file", mtime |-> Now, len |-> 0, data |-> data]
EmptyFile == FileNode(NoData)
NewDir == [kind |-> "dir", mtime |-> Now, len |-> 0, data |-> NoData]

(***************************************************************************)
(* The embedded asset bundle: include_dir!("vendor").                      *)
(***************************************************************************)
SITE_CSS == <<"s", "i", "t", "e", ".", "c", "s", "s">>
OLD_TXT == <<"o", "l", "d", ".", "t", "x", "t">>

VENDOR_DIR == {SITE_CSS}

AssetData == [tag |-> "asset", entries |-> <<>>, breadcrumbs |-> <<>>, vendor_dir |-> <<>>]

VendorPath == Join(<<>>, VENDOR_DIR_NAME)

IsPrefix(p, q) == Len(p) <= Len(q) /\ SubSeq(q, 1, Len(p)) = p

\* the paths directly under a directory that hold something
Children(path) ==
  {p \in DOMAIN fs : /\ Len(p) = Len(path) + 1
                     /\ IsPrefix(path, p)
                     /\ fs[p].kind # "absent"}

(***************************************************************************)
(* main, step 1: the asset provisioner.  VENDOR_DIR_NAME is a relative     *)
(* path of one normal component; read_dir(".") yields it as ./_vendor.     *)
(* The filesystem is keyed by the paths read_dir yields, so the relative   *)
(* path _vendor names the node ./_vendor.                                  *)
(***************************************************************************)
Resolve(path) == IF path # <<>> /\ path[1] = CurDir THEN path ELSE DOT \o path

Fail(where, error) ==
  status' = [pc |-> "failed", at |-> where, error |-> error]

\* remove_dir_all(VENDOR_DIR_NAME)?
RemoveDirAll ==
  /\ status.pc = "remove_dir_all"
  /\ LET v == Resolve(VendorPath)
     IN  IF Node(v).kind = "dir"
         THEN /\ fs' = [p \in DOMAIN fs |-> IF IsPrefix(v, p) THEN Absent ELSE fs[p]]
              /\ status' = [status EXCEPT !.pc = "create_dir"]
         ELSE /\ Fail("remove_dir_all",
                      IF Node(v).kind = "absent" THEN "NotFound" ELSE "NotADirectory")
              /\ UNCHANGED fs
  /\ UNCHANGED <<stack, lost, input, output, before>>

\* create_dir(VENDOR_DIR_NAME)?
CreateDir ==
  /\ status.pc = "create_dir"
  /\ LET v == Resolve(VendorPath)
     IN  IF Node(v).kind = "absent"
         THEN /\ fs' = [fs EXCEPT ![v] = NewDir]
              /\ status' = [status EXCEPT !.pc = "extract"]
         ELSE /\ Fail("create_dir", "AlreadyExists")
              /\ UNCHANGED fs
  /\ UNCHANGED <<stack, lost, input, output, before>>

NewFrame(path) ==
  [path |-> path, pc |-> "read_dir", pending |-> {}, directories |-> <<>>,
   files |-> <<>>, cur |-> NoEntry]

\* VENDOR_DIR.extract(VENDOR_DIR_NAME)?, and the call generate_index(".")
Extract ==
  /\ status.pc = "extract"
  /\ LET v == Resolve(VendorPath)
     IN  fs' = [p \in DOMAIN fs |->
                  IF \E a \in VENDOR_DIR : p = Join(v, a)
                  THEN FileNode(AssetData) ELSE fs[p]]
  /\ status' = [status EXCEPT !.pc = "index"]
  /\ stack' = <<NewFrame(DOT)>>
  /\ UNCHANGED <<lost, input, output, before>>

(***************************************************************************)
(* generate_index.  The call stack is a sequence of frames, the running    *)
(* call last.  A frame holds the call's path, its place in the code, the   *)
(* directory items read_dir has still to yield, the two vectors, and the   *)
(* entry of the subdirectory being visited, pushed when that call returns. *)
(***************************************************************************)
Top == stack[Len(stack)]
Running == status.pc = "index" /\ stack # <<>>
SetTop(frame) == [stack EXCEPT ![Len(stack)] = frame]
InLoop == Running /\ Top.pc = "loop"

\* path.as_ref().read_dir()?
ReadDir ==
  /\ Running /\ Top.pc = "read_dir"
  /\ IF Node(Top.path).kind = "dir"
     THEN /\ stack' = SetTop([Top EXCEPT !.pc = "loop", !.pending = Children(Top.path)])
          /\ UNCHANGED status
     ELSE /\ Fail("read_dir", "PermissionDenied")
          /\ UNCHANGED stack
  /\ UNCHANGED <<fs, lost, input, output, before>>

\* The items the directory may yield next.  read_dir yields in any order;
\* an item that ignore passes over changes nothing, whatever its place, so
\* the directory yields those first and the others then in every order.
NextItems ==
  LET passed == {c \in Top.pending : ignore(c)}
  IN  IF passed # {} THEN passed ELSE Top.pending

\* the directory yields an Err item: if let Ok(dir_entry) = dir_entry does
\* not match and the item is passed over
ItemErr ==
  /\ InLoop
  /\ Cardinality(lost) < MaxLost
  /\ \E c \in NextItems :
       /\ stack' = SetTop([Top EXCEPT !.pending = @ \ {c}])
       /\ lost' = lost \cup {c}
  /\ UNCHANGED <<fs, status, input, output, before>>

\* if ignore(&entry_path) { continue; }
ItemIgnored ==
  /\ InLoop
  /\ \E c \in NextItems :
       /\ ignore(c)
       /\ stack' = SetTop([Top EXCEPT !.pending = @ \ {c}])
  /\ UNCHANGED <<fs, status, lost, input, output, before>>

\* Entry::new(entry_path.clone())? returns the error
ItemEntryErr ==
  /\ InLoop
  /\ \E c \in NextItems :
       /\ ~ignore(c)
       /\ ~Entry_new(c).ok
       /\ Fail("Entry::new", Entry_new(c).val)
  /\ UNCHANGED <<fs, stack, lost, input, output, before>>

\* dir_entry.file_type()? returns an error
ItemFileTypeErr ==
  /\ InLoop
  /\ \E c \in NextItems :
       /\ ~ignore(c)
       /\ Entry_new(c).ok
       /\ Fail("file_type", "Io")
  /\ UNCHANGED <<fs, stack, lost, input, output, before>>

\* a directory: the call generate_index(&entry_path.as_path())
ItemDir ==
  /\ InLoop
  /\ \E c \in NextItems :
       /\ ~ignore(c)
       /\ Entry_new(c).ok
       /\ file_type_is_dir(c)
       /\ stack' = Append(SetTop([Top EXCEPT !.pending = @ \ {c},
                                             !.cur = Entry_new(c).val]),
                          NewFrame(c))
  /\ UNCHANGED <<fs, status, lost, input, output, before>>

\* anything else: files.push(entry)
ItemFile ==
  /\ InLoop
  /\ \E c \in NextItems :
       /\ ~ignore(c)
       /\ Entry_new(c).ok
       /\ ~file_type_is_dir(c)
       /\ stack' = SetTop([Top EXCEPT !.pending = @ \ {c},
                                      !.files = Append(@, Entry_new(c).val)])
  /\ UNCHANGED <<fs, status, lost, input, output, before>>

IndexJsonPath(dir) == Join(dir, INDEX_JSON)

\* index.html written to the path of index.json
IndexHtmlPath_json(dir) == Join(dir, INDEX_JSON)

IndexHtmlPath(dir) == Join(dir, INDEX_HTML)

\* the listings written before the loop has ended
AtEndOfLoop_early == InLoop

\* the for loop has run out of items
AtEndOfLoop == InLoop /\ Top.pending = {}

\* The end of the loop: both sorts, then index.json is removed if it
\* exists, created and written.
WriteJson ==
  /\ AtEndOfLoop
  /\ LET files == sort_files(Top.files)
     IN  /\ fs' = [fs EXCEPT ![IndexJsonPath(Top.path)] = FileNode(IndexJson(files))]
         /\ stack' = SetTop([Top EXCEPT !.pc = "index_html",
                                        !.directories = sort_directories(@),
                                        !.files = files])
  /\ UNCHANGED <<status, lost, input, output, before>>

\* What a failed replacement of a listing leaves: remove_file(..)? fails and
\* the old file stays; File::create(..)? fails after the removal; the write
\* fails and the created file is incomplete.
ReplaceFailure(path, stage) ==
  /\ stage = "remove_file" => exists(path)
  /\ fs' = [fs EXCEPT ![path] = IF stage = "remove_file" THEN @
                                ELSE IF stage = "File::create" THEN Absent
                                ELSE EmptyFile]
  /\ Fail(stage, "Io")

\* remove_file(&index_json)?, File::create(index_json)? or
\* serde_json::to_writer_pretty(..)? returns an error
WriteJsonErr ==
  /\ AtEndOfLoop
  /\ \E stage \in {"remove_file", "File::create", "to_writer_pretty"} :
       ReplaceFailure(IndexJsonPath(Top.path), stage)
  /\ UNCHANGED <<stack, lost, input, output, before>>

\* Ok(()): the frame is popped; the caller pushes the subdirectory's entry,
\* and the outermost call's return ends main
Return ==
  IF Len(stack) = 1
  THEN /\ stack' = <<>>
       /\ status' = [status EXCEPT !.pc = "done"]
  ELSE /\ LET caller == stack[Len(stack) - 1]
          IN  stack' = Append(SubSeq(stack, 1, Len(stack) - 2),
                              [caller EXCEPT !.directories = Append(@, caller.cur),
                                             !.cur = NoEntry])
       /\ UNCHANGED status

AtIndexHtml == Running /\ Top.pc = "index_html"

\* The directories chained with the files; index.html is removed if it
\* exists, created, and the page is written from the breadcrumbs and the
\* entries.
WriteHtml ==
  /\ AtIndexHtml
  /\ LET entries == Top.directories \o Top.files
         breadcrumbs == to_breadcrumbs(Top.path)
     IN  fs' = [fs EXCEPT ![IndexHtmlPath(Top.path)] =
                  FileNode(IndexHtml(VENDOR_DIR_NAME, breadcrumbs, entries))]
  /\ Return
  /\ UNCHANGED <<lost, input, output, before>>

\* remove_file(&index_html)?, File::create(index_html)? or write_into(..)?
\* returns an error
WriteHtmlErr ==
  /\ AtIndexHtml
  /\ \E stage \in {"remove_file", "File::create", "write_into"} :
       ReplaceFailure(IndexHtmlPath(Top.path), stage)
  /\ UNCHANGED <<stack, lost, input, output, before>>

(***************************************************************************)
(* The trees the run starts from.  The traversal root holds the asset      *)
(* subdirectory (absent, a file, or a directory with an older copy of the  *)
(* asset and perhaps a leftover file), the listings of an earlier run or   *)
(* none, and the children a, B and c; a holds d and e; d holds f.          *)
(***************************************************************************)
NameA == <<"a">>
NameB == <<"B">>
NameC == <<"c">>
NameD == <<"d">>
NameE == <<"e">>
NameF == <<"f">>

PathVendor == Join(DOT, VENDOR_DIR_NAME)
PathA == Join(DOT, NameA)
PathB == Join(DOT, NameB)
PathC == Join(DOT, NameC)
PathD == Join(PathA, NameD)
PathE == Join(PathA, NameE)
PathF == Join(PathD, NameF)

Dates == 1..MaxDate

UserData == [tag |-> "user", entries |-> <<>>, breadcrumbs |-> <<>>, vendor_dir |-> <<>>]
PriorData == [tag |-> "prior", entries |-> <<>>, breadcrumbs |-> <<>>, vendor_dir |-> <<>>]
StaleData == [tag |-> "stale", entries |-> <<>>, breadcrumbs |-> <<>>, vendor_dir |-> <<>>]

File(t) == [kind |-> "file", mtime |-> t, len |-> 1536, data |-> UserData]
Dir == [kind |-> "dir", mtime |-> 1, len |-> 0, data |-> NoData]
LockedDir == [kind |-> "lockeddir", mtime |-> 1, len |-> 0, data |-> NoData]
LinkDir == [kind |-> "linkdir", mtime |-> 1, len |-> 0, data |-> NoData]
Broken == [kind |-> "broken", mtime |-> 0, len |-> 0, data |-> NoData]
PriorFile == [kind |-> "file", mtime |-> 1, len |-> 12, data |-> PriorData]
StaleFile == [kind |-> "file", mtime |-> 1, len |-> 12, data |-> StaleData]

Files == {File(t) : t \in Dates}

OptionsA == {Dir, LockedDir}
OptionsB == {Dir, LinkDir}
OptionsC == {Broken} \cup Files
OptionsD == {Absent, Dir}
OptionsE == {Absent, File(1)}
OptionsF == {Absent, Broken}
OptionsVendor == {Absent, StaleFile, Dir}

\* the directories that hold the listings of an earlier run, when there
\* was one
Listed(a, b, d) ==
  {DOT} \cup (IF a.kind = "dir" THEN {PathA} ELSE {})
        \cup (IF b.kind = "dir" THEN {PathB} ELSE {})
        \cup (IF d.kind = "dir" THEN {PathD} ELSE {})

ListingPaths ==
  UNION {{IndexJsonPath(dir), IndexHtmlPath(dir)} : dir \in {DOT, PathVendor, PathA, PathB, PathD}}

Universe ==
  {DOT, PathVendor, Join(PathVendor, SITE_CSS), Join(PathVendor, OLD_TXT),
   PathA, PathB, PathC, PathD, PathE, PathF} \cup ListingPaths

Tree(vendor, old, indexed, a, b, c, d, e, f) ==
  [p \in Universe |->
     IF p = DOT THEN Dir
     ELSE IF p = PathVendor THEN vendor
     ELSE IF p = Join(PathVendor, SITE_CSS)
       THEN (IF vendor.kind = "dir" THEN StaleFile ELSE Absent)
     ELSE IF p = Join(PathVendor, OLD_TXT)
       THEN (IF vendor.kind = "dir" /\ old THEN StaleFile ELSE Absent)
     ELSE IF p = PathA THEN a
     ELSE IF p = PathB THEN b
     ELSE IF p = PathC THEN c
     ELSE IF p = PathD THEN d
     ELSE IF p = PathE THEN e
     ELSE IF p = PathF THEN f
     ELSE IF indexed /\ \E dir \in Listed(a, b, d) :
                p \in {IndexJsonPath(dir), IndexHtmlPath(dir)}
       THEN PriorFile
     ELSE Absent]

\* the files the tree holds under a name other than index.html and index.json
OtherFiles ==
  {p \in DOMAIN fs : fs[p].kind = "file"
                       /\ p[Len(p)][2] \notin {INDEX_HTML, INDEX_JSON}}

Idle == [done |-> FALSE, val |-> <<>>]

Init ==
  /\ \E vendor \in OptionsVendor, old \in BOOLEAN, indexed \in BOOLEAN,
        a \in OptionsA, b \in OptionsB, c \in OptionsC,
        d \in OptionsD, e \in OptionsE, f \in OptionsF :
       /\ vendor.kind # "dir" => ~old
       /\ a.kind # "dir" => d = Absent /\ e = Absent
       /\ d.kind # "dir" => f = Absent
       /\ fs = Tree(vendor, old, indexed, a, b, c, d, e, f)
  /\ status = [pc |-> "remove_dir_all", at |-> "", error |-> ""]
  /\ stack = <<>>
  /\ lost = {}
  /\ input = <<>>
  /\ output = Idle
  /\ before = OtherFiles

Next ==
  \/ RemoveDirAll
  \/ CreateDir
  \/ Extract
  \/ ReadDir
  \/ ItemErr
  \/ ItemIgnored
  \/ ItemEntryErr
  \/ ItemFileTypeErr
  \/ ItemDir
  \/ ItemFile
  \/ WriteJson
  \/ WriteJsonErr
  \/ WriteHtml
  \/ WriteHtmlErr

Spec == Init /\ [][Next]_vars

(***************************************************************************)
(* to_breadcrumbs on its own: the paths generate_index is called with      *)
(* (./s1/../sn) and the same paths without the leading ".".                *)
(***************************************************************************)
NameX == <<"x">>
NameY == <<"y">>
NameZ == <<"z">>
NameAB == <<"a", ".", "b">>

CrumbNames == {NameX, NameY, NameZ, NameAB}

RECURSIVE NameSeqs(_)
NameSeqs(n) ==
  IF n = 0 THEN {<<>>}
  ELSE NameSeqs(n - 1) \cup
       {Append(s, x) : s \in {t \in NameSeqs(n - 1) : Len(t) = n - 1}, x \in CrumbNames}

\* the path of the directory s1/../sn below a start (".", or nothing)
PathOf(start, names) == start \o [i \in DOMAIN names |-> Normal(names[i])]

CrumbInputs == {PathOf(start, s) : start \in {DOT, <<>>}, s \in NameSeqs(MaxDepth)}

EmptyTree == [p \in {} |-> Absent]

InitCrumbs ==
  /\ input \in CrumbInputs
  /\ output = Idle
  /\ fs = EmptyTree
  /\ status = [pc |-> "to_breadcrumbs", at |-> "", error |-> ""]
  /\ stack = <<>>
  /\ lost = {}
  /\ before = {}

ApplyBreadcrumbs ==
  /\ status.pc = "to_breadcrumbs"
  /\ ~output.done
  /\ output' = [done |-> TRUE, val |-> to_breadcrumbs(input)]
  /\ UNCHANGED <<fs, status, stack, lost, input, before>>

NextCrumbs == ApplyBreadcrumbs

SpecCrumbs == InitCrumbs /\ [][NextCrumbs]_vars

(***************************************************************************)
(* icon on its own: a name made of a stem, a "." and an extension, or a    *)
(* name without a ".", which is a file or a directory.                     *)
(***************************************************************************)
REPORT == <<"r", "e", "p", "o", "r", "t">>
README == <<"R", "E", "A", "D", "M", "E">>
EXT_PDF_UPPER == <<"P", "D", "F">>
EXT_XYZ == <<"x", "y", "z">>
EXT_BLANKICON == <<"^", "^", "B", "L", "A", "N", "K", "I", "C", "O", "N", "^", "^">>

IconStems == {REPORT, NameAB, <<>>}
IconExts ==
  UNION {IconArms[i].pats : i \in DOMAIN IconArms} \cup {EXT_PDF_UPPER, EXT_XYZ}

DottedName(stem, ext) == stem \o <<".">> \o ext

IconNames ==
  {DottedName(stem, ext) : stem \in IconStems, ext \in IconExts}
    \cup {REPORT, README}

InitIcon ==
  /\ \E name \in IconNames, node \in {File(1), Dir, LinkDir} :
       /\ input = Join(DOT, name)
       /\ fs = [p \in {input} |-> node]
  /\ output = Idle
  /\ status = [pc |-> "icon", at |-> "", error |-> ""]
  /\ stack = <<>>
  /\ lost = {}
  /\ before = {}

ApplyIcon ==
  /\ status.pc = "icon"
  /\ ~output.done
  /\ output' = [done |-> TRUE, val |-> icon(input)]
  /\ UNCHANGED <<fs, status, stack, lost, input, before>>

NextIcon == ApplyIcon

SpecIcon == InitIcon /\ [][NextIcon]_vars

(***************************************************************************)
(* The claims.                                                             *)
(***************************************************************************)
Done == status.pc = "done"
Failed == status.pc = "failed"

Name(p) == p[Len(p)][2]
IgnoredNames == {VENDOR_DIR_NAME, INDEX_HTML, INDEX_JSON}
DirKinds == {"dir", "lockeddir"}

AllDirs == {p \in DOMAIN fs : fs[p].kind \in DirKinds}

JsonOf(dir) == Node(IndexJsonPath(dir)).data
HtmlOf(dir) == Node(IndexHtmlPath(dir)).data

\* both listings of a directory are files written by this run
HasListings(dir) ==
  /\ Node(IndexJsonPath(dir)).kind = "file" /\ JsonOf(dir).tag = "json"
  /\ Node(IndexHtmlPath(dir)).kind = "file" /\ HtmlOf(dir).tag = "html"

\* the components of a path from the one below dir down to the path itself
Below(dir, p) == {SubSeq(p, 1, k) : k \in (Len(dir) + 1)..Len(p)}

\* the directories below dir that are reached through directories that are
\* not ignored
SubdirsAll(dir) ==
  {s \in AllDirs : /\ s # dir /\ IsPrefix(dir, s)
                   /\ \A q \in Below(dir, s) :
                        fs[q].kind \in DirKinds /\ Name(q) \notin IgnoredNames}

\* those of them that the enumerations yielded
SubdirsYielded(dir) ==
  {s \in SubdirsAll(dir) : \A q \in Below(dir, s) : q \notin lost}

\* the directories a successful run has visited
VisitedDirs == {DOT} \cup SubdirsYielded(DOT)

\* the children of a directory that are not ignored and not directories
ListedFiles(dir) ==
  {c \in Children(dir) : Name(c) \notin IgnoredNames /\ fs[c].kind \notin DirKinds}

\* index.json of dir holds one entry for each path of expected, and no other
JsonMatches(dir, expected) ==
  LET entries == JsonOf(dir).entries
  IN  /\ JsonOf(dir).tag = "json"
      /\ Len(entries) = Cardinality(expected)
      /\ {Join(dir, entries[i].name) : i \in DOMAIN entries} = expected

\* C1 as stated: after a successful run the entries of index.json of every
\* visited directory are exactly its children that are not ignored and not
\* directories, each once.
C1_Original ==
  Done => \A dir \in VisitedDirs : JsonMatches(dir, ListedFiles(dir))

\* C1 as amended: after a successful run the entries of index.json of every
\* visited directory are exactly its children that are not ignored, not
\* directories and that the directory enumeration yielded without an error,
\* each once.
C1_Amended ==
  Done => \A dir \in VisitedDirs : JsonMatches(dir, ListedFiles(dir) \ lost)

\* a successful run in which the root's enumeration lost a file, the root's
\* index.json and that of a subdirectory have entries
C1_Witness ==
  /\ Done
  /\ lost \cap ListedFiles(DOT) # {}
  /\ JsonOf(DOT).entries # <<>>
  /\ PathA \in VisitedDirs
  /\ JsonOf(PathA).entries # <<>>

\* C2 as stated: after a successful run every directory of the tree holds
\* index.json and index.html, and every file that existed before the run
\* under another name still exists.
C2_Original ==
  Done => /\ \A dir \in AllDirs : HasListings(dir)
          /\ \A p \in before : fs[p].kind = "file"

\* C2 as amended: after a successful run every directory the run visited
\* (the root and the directories reached from it through directories that
\* are not ignored and that the enumerations yielded) holds index.json and
\* index.html, and every file that existed before the run outside the asset
\* subdirectory under another name still exists, unchanged.
C2_Amended ==
  Done => /\ \A dir \in VisitedDirs : HasListings(dir)
          /\ \A p \in before :
               ~IsPrefix(PathVendor, p) => fs[p].kind = "file" /\ fs[p].data = UserData

\* a successful run over two levels of directories, with a file beside them,
\* from a tree whose asset subdirectory held a leftover file
C2_Witness ==
  /\ Done
  /\ PathD \in VisitedDirs
  /\ PathC \in before
  /\ Join(PathVendor, OLD_TXT) \in before

\* C3: no entry of a listing written by generate_index is the asset
\* subdirectory, index.html or index.json; no call of generate_index is on a
\* path through the asset subdirectory, and no listing is written into it.
C3_NeverListed ==
  /\ \A p \in DOMAIN fs :
       fs[p].data.tag \in {"json", "html"} =>
         \A i \in DOMAIN fs[p].data.entries :
           fs[p].data.entries[i].name \notin IgnoredNames
  /\ \A i \in DOMAIN stack :
       \A k \in DOMAIN stack[i].path : stack[i].path[k] # Normal(VENDOR_DIR_NAME)
  /\ Node(IndexJsonPath(PathVendor)) = Absent
  /\ Node(IndexHtmlPath(PathVendor)) = Absent

\* a run over a tree that holds the listings of an earlier run: the root's
\* index.json is rewritten, with entries, and its old index.html is still
\* there
C3_Witness ==
  /\ status.pc = "index"
  /\ JsonOf(DOT).tag = "json"
  /\ JsonOf(DOT).entries # <<>>
  /\ Node(IndexHtmlPath(DOT)) = PriorFile
  /\ Node(PathVendor).kind = "dir"

\* the place of the entry of a name in a sequence of entries
Place(entries, name) == CHOOSE k \in DOMAIN entries : entries[k].name = name

\* C4: whenever an index.json is written, its entries are in descending
\* order of date, and entries of equal date are in the order in which the
\* directory enumeration produced them (the order of the pushes to files).
C4_SortedByDate ==
  [][\A dir \in AllDirs :
       (JsonOf(dir)' # JsonOf(dir) /\ JsonOf(dir)'.tag = "json") =>
         LET out == JsonOf(dir)'.entries
             pushed == Top.files
         IN  /\ dir = Top.path
             /\ Len(out) = Len(pushed)
             /\ \A i \in 1..(Len(out) - 1) : out[i].date >= out[i + 1].date
             /\ \A i, j \in DOMAIN out :
                  (i < j /\ out[i].date = out[j].date) =>
                    Place(pushed, out[i].name) < Place(pushed, out[j].name)]_vars

\* an index.json with two entries of one date, in the order of the
\* enumeration and not of their names
C4_Witness ==
  \E dir \in AllDirs :
    /\ JsonOf(dir).tag = "json"
    /\ Len(JsonOf(dir).entries) = 2
    /\ JsonOf(dir).entries[1].date = JsonOf(dir).entries[2].date
    /\ StrLess(JsonOf(dir).entries[2].name, JsonOf(dir).entries[1].name)

\* C5: in the entries of every index.html written, the entries of
\* directories come before all others, the entries of directories are in
\* ascending order of name and the others in descending order of date.
C5_HtmlOrder ==
  \A dir \in AllDirs :
    HtmlOf(dir).tag = "html" =>
      LET es == HtmlOf(dir).entries
          IsDirEntry(i) == Node(Join(dir, es[i].name)).kind \in DirKinds
      IN  \A i, j \in DOMAIN es :
            i < j =>
              /\ IsDirEntry(j) => IsDirEntry(i)
              /\ (IsDirEntry(i) /\ IsDirEntry(j)) => StrLess(es[i].name, es[j].name)
              /\ (~IsDirEntry(i) /\ ~IsDirEntry(j)) => es[i].date >= es[j].date

\* the root's index.html with two directories, B before a, and a file
C5_Witness ==
  /\ HtmlOf(DOT).tag = "html"
  /\ Len(HtmlOf(DOT).entries) = 3
  /\ HtmlOf(DOT).entries[1].name = NameB
  /\ HtmlOf(DOT).entries[2].name = NameA
  /\ HtmlOf(DOT).entries[3].name = NameC
  /\ Node(PathB).kind = "dir"

\* the asset subdirectory is a directory that holds the embedded assets and
\* nothing else
VendorExact ==
  /\ Node(PathVendor).kind = "dir"
  /\ Children(PathVendor) = {Join(PathVendor, a) : a \in VENDOR_DIR}
  /\ \A p \in Children(PathVendor) : fs[p].data = AssetData

InProvisioner == status.pc \in {"remove_dir_all", "create_dir", "extract"}

\* C6: the provisioner, started with the asset subdirectory present with any
\* contents or not present (a file of that name aside), ends with the asset
\* subdirectory holding exactly the embedded assets, and indexing begins.
C6_Provisioned ==
  (~InProvisioner /\ status.error # "NotADirectory") =>
    /\ VendorExact
    /\ status.at \notin {"remove_dir_all", "create_dir", "extract"}

\* C7: a child whose metadata cannot be read does not end the run.
C7_MetadataSkipped ==
  ~(Failed /\ status.at = "Entry::new" /\ status.error = "metadata")

RECURSIVE SlashJoined(_, _)
SlashJoined(names, n) ==
  IF n = 1 THEN names[1]
  ELSE SlashJoined(names, n - 1) \o <<"/">> \o names[n]

\* C8: to_breadcrumbs on ./s1/../sn gives n breadcrumbs, the i-th with the
\* name si and the path s1/../si; on "." it gives none.
C8_Breadcrumbs ==
  (output.done /\ input # <<>> /\ input[1] = CurDir) =>
    LET names == [i \in 1..(Len(input) - 1) |-> input[i + 1][2]]
    IN  /\ Len(output.val) = Len(names)
        /\ \A i \in DOMAIN names :
             /\ output.val[i].name = names[i]
             /\ output.val[i].path = SlashJoined(names, i)

\* the breadcrumbs of a directory three levels down, of three names
C8_Witness ==
  /\ output.done
  /\ Len(input) = 4
  /\ input[1] = CurDir
  /\ Len(output.val) = 3
  /\ output.val[1].name # output.val[2].name
  /\ output.val[2].name # output.val[3].name
  /\ output.val[3].path = SlashJoined([i \in 1..3 |-> input[i + 1][2]], 3)

\* the table of the icon classification, as the specification gives it
SpecIconTable ==
  <<
    [exts |-> {<<"c", "o", "m", "p">>},
     icon |-> "comp.png"],
    [exts |-> {<<"z", "i", "p">>, <<"t", "a", "r">>, <<"t", "g", "z">>, <<"r", "a", "r">>, <<"g", "z">>, <<"b", "z", "2">>},
     icon |-> "compressed.gif"],
    [exts |-> {<<"d", "o", "c">>, <<"d", "o", "c", "x">>},
     icon |-> "doc.png"],
    [exts |-> {<<"x", "l", "s">>, <<"x", "l", "s", "x">>},
     icon |-> "xls.png"],
    [exts |-> {<<"p", "p", "t">>, <<"p", "p", "t", "x">>},
     icon |-> "ppt.png"],
    [exts |-> {<<"t", "x", "t">>, <<"t", "e", "x", "t">>, <<"h", "t", "m", "l">>, <<"h", "t", "m">>, <<"m", "d">>, <<"m", "d", "o", "w", "n">>, <<"m", "a", "r", "k", "d", "o", "w", "n">>},
     icon |-> "text.png"],
    [exts |-> {<<"p", "d", "f">>},
     icon |-> "pdf.png"],
    [exts |-> {<<"j", "p", "g">>, <<"j", "p", "e", "g">>, <<"p", "n", "g">>, <<"g", "i", "f">>, <<"t", "i", "f">>, <<"t", "i", "f", "f">>, <<"w", "e", "b", "p">>},
     icon |-> "image.png"],
    [exts |-> {<<"p", "s">>},
     icon |-> "ps.png"],
    [exts |-> {<<"m", "p", "3">>, <<"w", "a", "v">>, <<"m", "4", "a">>, <<"o", "g", "g">>},
     icon |-> "sound.png"],
    [exts |-> {<<"w", "m", "v">>, <<"a", "v", "i">>, <<"m", "p", "4">>, <<"w", "e", "b", "m">>},
     icon |-> "movie-ms.gif"],
    [exts |-> {<<"m", "o", "v">>, <<"q", "t">>},
     icon |-> "mov.png"],
    [exts |-> {<<"j", "a", "v", "a">>},
     icon |-> "java.png"],
    [exts |-> {<<"j", "s">>},
     icon |-> "js.png"],
    [exts |-> {<<"p", "h", "p">>},
     icon |-> "php.png"]
  >>

\* the names of the inputs with their extension: none without a ".", or
\* with only a leading one; else what follows the last "."
IconCases ==
  {[name |-> DottedName(stem, ext),
    ext |-> IF ext = <<".", ".">> THEN Some(<<>>)
            ELSE IF stem = <<>> THEN None
            ELSE Some(ext)] : stem \in IconStems, ext \in IconExts}
    \cup {[name |-> n, ext |-> None] : n \in {REPORT, README}}

TableIcon(ext) ==
  IF \E i \in DOMAIN SpecIconTable : ext \in SpecIconTable[i].exts
  THEN SpecIconTable[CHOOSE i \in DOMAIN SpecIconTable : ext \in SpecIconTable[i].exts].icon
  ELSE "text.png"

InputIsDir == fs[input].kind \in {"dir", "linkdir"}

\* C9 as stated: a directory has the dir icon; a file has the icon the table
\* gives its extension, and the text icon when the extension is not in the
\* table or the name has none.
C9_Original ==
  output.done =>
    \A case \in IconCases :
      Name(input) = case.name =>
        output.val = IF InputIsDir THEN "dir.png"
                     ELSE IF case.ext.some THEN TableIcon(case.ext.val)
                     ELSE "text.png"

\* C9 as amended: a directory has the dir icon; a file has the icon the
\* table gives its extension; a file whose name has no extension, or an
\* empty one, or the extension ^^BLANKICON^^, has the blank icon; a file with
\* any other extension that is not in the table has the text icon.
C9_Amended ==
  output.done =>
    \A case \in IconCases :
      Name(input) = case.name =>
        output.val = IF InputIsDir THEN "dir.png"
                     ELSE IF ~case.ext.some THEN "blank.gif"
                     ELSE IF case.ext.val \in {<<>>, EXT_BLANKICON} THEN "blank.gif"
                     ELSE TableIcon(case.ext.val)

\* icon applied to a file without an extension
C9_Witness ==
  /\ output.done
  /\ Name(input) = README
  /\ ~InputIsDir
  /\ output.val = "blank.gif"

ListingsOf(dir) == <<Node(IndexJsonPath(dir)), Node(IndexHtmlPath(dir))>>

\* a step that changes a listing of dir is a step of the call on dir, after
\* its loop has ended and with both listings of the given subdirectories
\* written
WrittenAfter(subdirs) ==
  \A dir \in AllDirs :
    ListingsOf(dir)' # ListingsOf(dir) =>
      /\ Running
      /\ Top.path = dir
      /\ Top.pending = {}
      /\ \A s \in subdirs[dir] : HasListings(s)

\* the listings of the directories whose call has not returned, the running
\* call aside, are as they were before the run
CallersUntouched ==
  \A i \in 1..(Len(stack) - 1) :
    \A n \in {Node(IndexJsonPath(stack[i].path)), Node(IndexHtmlPath(stack[i].path))} :
      n \in {PriorFile, Absent}

\* C10 as stated: a listing of a directory is written only after both
\* listings of every subdirectory below it that is not ignored; the listings
\* of the callers of the running call are untouched, so also when the run
\* fails there.
C10_Original ==
  /\ [][WrittenAfter([dir \in AllDirs |-> SubdirsAll(dir)])]_vars
  /\ []CallersUntouched

\* C10 as amended: a listing of a directory is written only after both
\* listings of every subdirectory below it that is not ignored and that the
\* enumerations yielded; the listings of the callers of the running call are
\* untouched, so also when the run fails there.
C10_Amended ==
  /\ [][WrittenAfter([dir \in AllDirs |-> SubdirsYielded(dir)])]_vars
  /\ []CallersUntouched

\* a run that failed two levels down, after the listings of B were written,
\* with the root's listings of the earlier run still there
C10_Witness ==
  /\ Failed
  /\ Len(stack) = 3
  /\ HasListings(PathB)
  /\ Node(IndexJsonPath(DOT)) = PriorFile
  /\ Node(IndexHtmlPath(DOT)) = PriorFile

====
